---- MODULE Spec2Model ----
(***************************************************************************)
(* Model of src/main.py (StockScanner): the main flow                      *)
(*   fetch_data -> _calculate_indicators -> run_backtest -> run_prediction. *)
(*                                                                         *)
(* Python indices are kept: a column is a function over 0..len-1.          *)
(* Floating point values are modelled by integers chosen so that every     *)
(* division the code performs on the model's inputs is exact; NaN is a     *)
(* separate value on which every comparison is false, as in IEEE 754.      *)
(* The EMA recurrences (ewm(span).mean()) and the 14-bar rolling means are *)
(* real-valued smoothing results: the model does not recompute them from   *)
(* Close, the series the service answers carries the values they produce.  *)
(***************************************************************************)
EXTENDS Integers, Sequences, FiniteSets

VARIABLES
    universe,     \* which series the data service can answer with (environment)
    fetched,      \* how yf.download ended: "no", "raise", "empty" or "data"
    pc,           \* position in the main flow
    df,           \* self.df
    fetchResult,  \* return value of fetch_data ("none" before it returns)
    calls,        \* log of the calls made so far, in order
    i,            \* loop variable of run_backtest
    signals,      \* the list `signals` of run_backtest
    summary,      \* the sorted summary frame ("none" when not produced)
    noSignals,    \* "No signals found in this period." was printed
    predictions   \* what predict_cross printed, one entry per call

vars == <<universe, fetched, pc, df, fetchResult, calls, i, signals, summary, noSignals, predictions>>

--------------------------------------------------------------------------
(* Values *)

NaN == -9999

None == [kind |-> "none"]

StartOffset == 50

Margin == 20

MaxLen == 73

MaxVal == 1

IsNaN(a) == a = NaN

\* Variant: the undefined value compared as the number that stands for it.
LtNaNAsNumber(a, b) == a < b

\* Python float comparisons: false as soon as one operand is NaN.
Lt(a, b) == ~IsNaN(a) /\ ~IsNaN(b) /\ a < b

Gt(a, b) == ~IsNaN(a) /\ ~IsNaN(b) /\ a > b

Ge(a, b) == ~IsNaN(a) /\ ~IsNaN(b) /\ a >= b

Le(a, b) == ~IsNaN(a) /\ ~IsNaN(b) /\ a <= b

\* Float subtraction: NaN propagates.
Sub(a, b) == IF IsNaN(a) \/ IsNaN(b) THEN NaN ELSE a - b

Abs(a) == IF a < 0 THEN -a ELSE a

--------------------------------------------------------------------------
(* Signal labels *)

Bull921 == "MA 9 > 21 (Bull Momentum)"

Bear921 == "MA 9 < 21 (Bear Momentum)"

Bull2150 == "MA 21 > 50 (Bull Trend)"

Bear2150 == "MA 21 < 50 (Bear Trend)"

MacdUp == "MACD Zero Cross Up"

MacdDown == "MACD Zero Cross Down"

RsiOver == "RSI Enter >70 (Overbought)"

RsiUnder == "RSI Enter <30 (Oversold)"

NoSig == "None"

\* The order in which groupby('Signal') lists its keys (sort=True: ascending
\* string order of the labels).
GroupOrder == <<Bear2150, Bull2150, Bear921, Bull921, MacdDown, MacdUp, RsiUnder, RsiOver>>

--------------------------------------------------------------------------
(* The series the data service can answer with *)

\* One bar of an answered series: the close and the values the smoothing
\* recurrences of _calculate_indicators produce for it.
RawRow(c, e9, e21, e50, e12, e26, g, l) ==
    [Close |-> c, ema9 |-> e9, ema21 |-> e21, ema50 |-> e50,
     ema12 |-> e12, ema26 |-> e26, gain |-> g, loss |-> l]

\* A bar on which nothing moves: MA9 < MA21 < MA50, MACD < 0, RSI = 50.
QuietRow == RawRow(10, 1, 2, 3, 1, 2, 1, 1)

\* A bar whose smoothed values are all undefined (0/0 gain and loss).
UndefinedRow == RawRow(10, NaN, NaN, NaN, NaN, NaN, 0, 0)

\* <<gain, loss>> pairs: RSI undefined (0/0), 20, 80, and saturated at 100
\* (loss = 0).
GainLoss == {<<0, 0>>, <<1, 4>>, <<4, 1>>, <<1, 0>>}

RichRows ==
    { RawRow(10, e9, 2, e50, e12, 2, gl[1], gl[2]) :
        e9 \in {1, 3}, e50 \in {1, 3}, e12 \in {1, 3}, gl \in GainLoss }
    \cup {UndefinedRow}

CoarseRows == { RawRow(10, e9, 2, 3, e12, 2, 1, 1) : e9 \in {1, 3}, e12 \in {1, 3} }

Data(n, rows) == [kind |-> "data", len |-> n, rows |-> rows]

Raises == [kind |-> "raise", len |-> 0, rows |-> <<>>]

Empty == [kind |-> "empty", len |-> 0, rows |-> <<>>]

\* The shortest series in which run_backtest scans a bar.
ShortestScanned == StartOffset + Margin + 1

\* The row with its close replaced.
WithClose(row, c) == [row EXCEPT !.Close = c]

\* Series of n bars in which every bar a scanned bar reads (bars
\* StartOffset-2 .. n-Margin-1) takes every row of rowSet, the others are
\* quiet; the close doubles at bar riseAt (never, when riseAt = n).
WindowInputs(n, rowSet, riseBars) ==
    { Data(n, [j \in 0..(n - 1) |->
                  WithClose(IF j \in (StartOffset - 2)..(n - Margin - 1)
                            THEN w[j] ELSE QuietRow,
                            IF j >= riseAt THEN 20 ELSE 10)]) :
        w \in [(StartOffset - 2)..(n - Margin - 1) -> rowSet], riseAt \in riseBars }

\* MA9 below MA21 on every bar before k and above it from bar k on: one clean
\* cross at bar k, nothing else moves. closeUp: the close doubles five bars
\* after the cross.
StepCross(n, k, closeUp) ==
    Data(n, [j \in 0..(n - 1) |->
                RawRow(IF closeUp /\ j >= k + 5 THEN 20 ELSE 10,
                       IF j < k THEN 1 ELSE 3, 2, 3, 1, 2, 1, 1)])

CrossInputs(lens) ==
    { StepCross(n, k, u) : n \in lens, k \in {49, 55}, u \in BOOLEAN }

\* Five-bar series (tail(5) is the whole column) whose MA9 and MA21 values
\* take every value of 0..m; MA50 stays at 3.
TailInputs(m) ==
    { Data(5, [j \in 0..4 |-> RawRow(10, s[j], l[j], 3, 1, 2, 1, 1)]) :
        s \in [0..4 -> 0..m], l \in [0..4 -> 0..m] }

\* The scenario MA_fast = [10,11,12,13,14], MA_mid = [14,13,12,11,10].
ScenarioInput(n) ==
    Data(n, [j \in 0..4 |-> RawRow(10, 10 + j, 14 - j, 3, 1, 2, 1, 1)])

--------------------------------------------------------------------------
(* _calculate_indicators *)

\* rs = gain / loss; RSI = 100 - 100 / (1 + rs).  0/0 is NaN, x/0 is inf and
\* the RSI saturates at 100.
RSIof(g, l) ==
    IF IsNaN(g) \/ IsNaN(l) THEN NaN
    ELSE IF l = 0 THEN (IF g = 0 THEN NaN ELSE 100)
    ELSE 100 - ((100 * l) \div (g + l))

CalculateIndicators(raw) ==
    [kind |-> "frame", len |-> raw.len,
     rows |-> [j \in 0..(raw.len - 1) |->
        [Close     |-> raw.rows[j].Close,
         MA9       |-> raw.rows[j].ema9,
         MA21      |-> raw.rows[j].ema21,
         MA50      |-> raw.rows[j].ema50,
         EMA12     |-> raw.rows[j].ema12,
         EMA26     |-> raw.rows[j].ema26,
         MACD_Line |-> Sub(raw.rows[j].ema12, raw.rows[j].ema26),
         RSI       |-> RSIof(raw.rows[j].gain, raw.rows[j].loss)]]]

--------------------------------------------------------------------------
(* fetch_data *)

\* What yf.download can do, by universe: raise, answer an empty frame, or
\* answer one of the universe's series.
\*   "window": MaxLen-1 and MaxLen bars with coarse rows, and the clean crosses;
\*   "detect": the shortest scanned series (one scanned bar) with rich rows;
\*   "tail":   the five-bar series, the scenario, and the clean crosses.
Responses(u) ==
    {Raises, Empty} \cup
    (IF u = "window"
        THEN WindowInputs(MaxLen, CoarseRows, {55, MaxLen})
             \cup WindowInputs(MaxLen - 1, CoarseRows, {55, MaxLen})
             \cup CrossInputs({60, 76, 77})
     ELSE IF u = "detect"
        THEN WindowInputs(ShortestScanned, RichRows, {ShortestScanned})
     ELSE TailInputs(MaxVal) \cup {ScenarioInput(5)} \cup CrossInputs({60, 76}))

\* Variant: the empty check is missing.
FetchSucceedsUnlessRaised(r) == r.kind # "raise"

\* The download neither raised nor came back empty.
FetchSucceeds(r) == r.kind = "data"

\* fetch_data, with the call of _calculate_indicators it ends in. The
\* flattening of MultiIndex columns and the liquidity warning only print.
FetchData ==
    /\ pc = "main"
    /\ \E r \in Responses(universe) :
        /\ fetched' = r.kind
        /\ calls' = (IF FetchSucceeds(r)
                     THEN <<"download", "_calculate_indicators">>
                     ELSE <<"download">>)
        /\ df' = (IF FetchSucceeds(r) THEN CalculateIndicators(r)
                  ELSE IF r.kind = "empty"
                       THEN [kind |-> "frame", len |-> 0, rows |-> <<>>]
                       ELSE df)
        /\ fetchResult' = (IF FetchSucceeds(r) THEN "True" ELSE "False")
        /\ pc' = (IF FetchSucceeds(r) THEN "run_backtest" ELSE "done")
    /\ UNCHANGED <<universe, i, signals, summary, noSignals, predictions>>

--------------------------------------------------------------------------
(* run_backtest *)

\* Row j of the frame run_backtest works on: the copy of self.df with the
\* columns Prev_X = X.shift(1) added (the first row's Prev_X is NaN).
Iloc(d, j) ==
    [MA9       |-> d.rows[j].MA9,
     MA21      |-> d.rows[j].MA21,
     MA50      |-> d.rows[j].MA50,
     MACD_Line |-> d.rows[j].MACD_Line,
     RSI       |-> d.rows[j].RSI,
     Prev_MA9  |-> IF j = 0 THEN NaN ELSE d.rows[j - 1].MA9,
     Prev_MA21 |-> IF j = 0 THEN NaN ELSE d.rows[j - 1].MA21,
     Prev_MA50 |-> IF j = 0 THEN NaN ELSE d.rows[j - 1].MA50,
     Prev_MACD |-> IF j = 0 THEN NaN ELSE d.rows[j - 1].MACD_Line,
     Prev_RSI  |-> IF j = 0 THEN NaN ELSE d.rows[j - 1].RSI]

\* _get_return(idx, days): the IndexError of iloc past the end gives NaN.
GetReturn(d, idx, days) ==
    IF idx + days >= d.len THEN NaN
    ELSE IF IsNaN(d.rows[idx + days].Close) \/ IsNaN(d.rows[idx].Close) THEN NaN
    ELSE ((d.rows[idx + days].Close - d.rows[idx].Close) * 100) \div d.rows[idx].Close

\* Variant: independent ifs, so that the last true condition wins.
SigTypeLastWins(prev, curr) ==
    IF Gt(prev.Prev_RSI, 30) /\ Le(curr.RSI, 30) THEN RsiUnder
    ELSE IF Lt(prev.Prev_RSI, 70) /\ Ge(curr.RSI, 70) THEN RsiOver
    ELSE IF Gt(prev.Prev_MACD, 0) /\ Lt(curr.MACD_Line, 0) THEN MacdDown
    ELSE IF Lt(prev.Prev_MACD, 0) /\ Gt(curr.MACD_Line, 0) THEN MacdUp
    ELSE IF Gt(prev.Prev_MA21, prev.Prev_MA50) /\ Lt(curr.MA21, curr.MA50) THEN Bear2150
    ELSE IF Lt(prev.Prev_MA21, prev.Prev_MA50) /\ Gt(curr.MA21, curr.MA50) THEN Bull2150
    ELSE IF Gt(prev.Prev_MA9, prev.Prev_MA21) /\ Lt(curr.MA9, curr.MA21) THEN Bear921
    ELSE IF Lt(prev.Prev_MA9, prev.Prev_MA21) /\ Gt(curr.MA9, curr.MA21) THEN Bull921
    ELSE NoSig

\* The if/elif chain of the loop body; prev = df.iloc[i-1], curr = df.iloc[i].
SigType(prev, curr) ==
    IF Lt(prev.Prev_MA9, prev.Prev_MA21) /\ Gt(curr.MA9, curr.MA21) THEN Bull921
    ELSE IF Gt(prev.Prev_MA9, prev.Prev_MA21) /\ Lt(curr.MA9, curr.MA21) THEN Bear921
    ELSE IF Lt(prev.Prev_MA21, prev.Prev_MA50) /\ Gt(curr.MA21, curr.MA50) THEN Bull2150
    ELSE IF Gt(prev.Prev_MA21, prev.Prev_MA50) /\ Lt(curr.MA21, curr.MA50) THEN Bear2150
    ELSE IF Lt(prev.Prev_MACD, 0) /\ Gt(curr.MACD_Line, 0) THEN MacdUp
    ELSE IF Gt(prev.Prev_MACD, 0) /\ Lt(curr.MACD_Line, 0) THEN MacdDown
    ELSE IF Lt(prev.Prev_RSI, 70) /\ Ge(curr.RSI, 70) THEN RsiOver
    ELSE IF Gt(prev.Prev_RSI, 30) /\ Le(curr.RSI, 30) THEN RsiUnder
    ELSE NoSig

\* Variant: the scan starts one bar early.
ScanStartEarly == StartOffset - 1

\* Variant: the scan runs to the end of the series.
ScanStopNoMargin(n) == n

\* range(50, len(df) - 20)
ScanStart == StartOffset

ScanStop(n) == n - Margin

\* Entry of run_backtest: the guard on self.df, the copy, signals = [].
RunBacktest ==
    /\ pc = "run_backtest"
    /\ calls' = Append(calls, "run_backtest")
    /\ IF df.kind = "none"
       THEN /\ pc' = "run_prediction"
            /\ UNCHANGED <<i, signals>>
       ELSE /\ pc' = "scan"
            /\ i' = ScanStart
            /\ signals' = <<>>
    /\ UNCHANGED <<universe, fetched, df, fetchResult, summary, noSignals, predictions>>

\* One iteration of the loop. The field bar is not in the code's dict: it
\* records the loop index the event was appended at.
ScanBar ==
    /\ pc = "scan"
    /\ i < ScanStop(df.len)
    /\ LET sig == SigType(Iloc(df, i - 1), Iloc(df, i))
       IN signals' = (IF sig # NoSig
                      THEN Append(signals,
                                  [Signal  |-> sig,
                                   Ret_5d  |-> GetReturn(df, i, 5),
                                   Ret_10d |-> GetReturn(df, i, 10),
                                   Ret_20d |-> GetReturn(df, i, 20),
                                   bar     |-> i])
                      ELSE signals)
    /\ i' = i + 1
    /\ UNCHANGED <<universe, fetched, pc, df, fetchResult, calls, summary, noSignals, predictions>>

\* The labels present in the event list, in groupby's key order.
RECURSIVE GroupKeys(_, _)
GroupKeys(sigs, k) ==
    IF k > Len(GroupOrder) THEN <<>>
    ELSE IF \E n \in DOMAIN sigs : sigs[n].Signal = GroupOrder[k]
         THEN <<GroupOrder[k]>> \o GroupKeys(sigs, k + 1)
         ELSE GroupKeys(sigs, k + 1)

\* Count=('Ret_5d', 'count'): the number of non-NaN Ret_5d of the group.
CountOf(sigs, key) ==
    Cardinality({n \in DOMAIN sigs : sigs[n].Signal = key /\ ~IsNaN(sigs[n].Ret_5d)})

\* One row of the aggregate. Wins_20d / Size * 100 is Win_Rate_20d; the means
\* Avg_5d and Avg_20d are not represented.
SummaryRow(sigs, key) ==
    [Signal   |-> key,
     Count    |-> CountOf(sigs, key),
     Wins_20d |-> Cardinality({n \in DOMAIN sigs :
                                 sigs[n].Signal = key /\ Gt(sigs[n].Ret_20d, 0)}),
     Size     |-> Cardinality({n \in DOMAIN sigs : sigs[n].Signal = key})]

GroupBy(sigs) ==
    LET keys == GroupKeys(sigs, 1)
    IN [r \in 1..Len(keys) |-> SummaryRow(sigs, keys[r])]

Perms(n) == {p \in [1..n -> 1..n] : \A a, b \in 1..n : a # b => p[a] # p[b]}

\* Variant: ascending=True.
SortValuesAscending(frame) ==
    { [r \in 1..Len(frame) |-> frame[p[r]]] : p \in
        {q \in Perms(Len(frame)) :
            \A r \in 1..(Len(frame) - 1) : frame[q[r]].Count <= frame[q[r + 1]].Count} }

\* sort_values(by='Count', ascending=False) with the default kind
\* ('quicksort', not stable): any arrangement of the rows whose Count does
\* not increase.
SortValues(frame) ==
    { [r \in 1..Len(frame) |-> frame[p[r]]] : p \in
        {q \in Perms(Len(frame)) :
            \A r \in 1..(Len(frame) - 1) : frame[q[r]].Count >= frame[q[r + 1]].Count} }

\* Loop exit: "No signals found" or the grouped, sorted summary.
Summarize ==
    /\ pc = "scan"
    /\ ~(i < ScanStop(df.len))
    /\ IF signals = <<>>
       THEN /\ noSignals' = TRUE
            /\ UNCHANGED summary
       ELSE /\ summary' \in SortValues(GroupBy(signals))
            /\ UNCHANGED noSignals
    /\ pc' = "run_prediction"
    /\ UNCHANGED <<universe, fetched, df, fetchResult, calls, i, signals, predictions>>

--------------------------------------------------------------------------
(* run_prediction *)

\* self.df[col].tail(5) as a sequence (all of the column when it is shorter).
TailOf(d, col) ==
    LET n == IF d.len < 5 THEN d.len ELSE 5
    IN [t \in 1..n |-> d.rows[d.len - n + t - 1][col]]

RECURSIVE SumTo(_, _)
SumTo(f, n) == IF n = 0 THEN 0 ELSE f[n] + SumTo(f, n - 1)

\* linregress(x, y).slope with x = arange(len(y)) is SlopeNum(y) / SlopeDen(n):
\* (n*Sxy - Sx*Sy) / (n*Sxx - Sx*Sx).
SlopeNum(y) ==
    LET n == Len(y)
    IN n * SumTo([t \in 1..n |-> (t - 1) * y[t]], n)
         - SumTo([t \in 1..n |-> t - 1], n) * SumTo(y, n)

SlopeDen(n) ==
    n * SumTo([t \in 1..n |-> (t - 1) * (t - 1)], n)
      - SumTo([t \in 1..n |-> t - 1], n) * SumTo([t \in 1..n |-> t - 1], n)

\* gap = curr_s - curr_l
Gap(sSeries, lSeries) == Sub(sSeries[Len(sSeries)], lSeries[Len(lSeries)])

\* net_slope = slope_s - slope_l, as its numerator over SlopeDen(n) > 0.
NetSlopeNum(sSeries, lSeries) == SlopeNum(sSeries) - SlopeNum(lSeries)

\* Variant: the slope tests are not strict.
ConvergingOrFlat(gap, netSlope) ==
    (Gt(gap, 0) /\ Le(netSlope, 0)) \/ (Lt(gap, 0) /\ Ge(netSlope, 0))

\* Variant: the signs are tested for being equal.
ConvergingSameSign(gap, netSlope) ==
    (Gt(gap, 0) /\ Gt(netSlope, 0)) \/ (Lt(gap, 0) /\ Lt(netSlope, 0))

\* The test guarding the division.
Converging(gap, netSlope) ==
    (Gt(gap, 0) /\ Lt(netSlope, 0)) \/ (Lt(gap, 0) /\ Gt(netSlope, 0))

Trend(gap) == IF Gt(gap, 0) THEN "BULLISH" ELSE "BEARISH"

\* What one call of predict_cross prints. days is d = abs(gap / net_slope) as
\* the fraction <<numerator, denominator>> (<<>> for "N/A"); divisors lists the
\* values gap was divided by.
PredictCross(d, shortMa, longMa) ==
    LET s   == TailOf(d, shortMa)
        l   == TailOf(d, longMa)
        gap == Gap(s, l)
        net == NetSlopeNum(s, l)
    IN IF Converging(gap, net)
       THEN [short |-> shortMa, long |-> longMa, trend |-> Trend(gap),
             status |-> "Converging",
             days |-> <<Abs(gap) * SlopeDen(Len(s)), Abs(net)>>,
             divisors |-> <<net>>]
       ELSE [short |-> shortMa, long |-> longMa, trend |-> Trend(gap),
             status |-> "Diverging (No Cross)",
             days |-> <<>>,
             divisors |-> <<>>]

RunPrediction ==
    /\ pc = "run_prediction"
    /\ calls' = Append(calls, "run_prediction")
    /\ predictions' = (IF df.kind = "none" THEN predictions
                       ELSE <<PredictCross(df, "MA9", "MA21"),
                              PredictCross(df, "MA21", "MA50")>>)
    /\ pc' = "done"
    /\ UNCHANGED <<universe, fetched, df, fetchResult, i, signals, summary, noSignals>>

--------------------------------------------------------------------------
(* The program *)

InitState ==
    /\ fetched = "no"
    /\ pc = "main"
    /\ df = None
    /\ fetchResult = "none"
    /\ calls = <<>>
    /\ i = 0
    /\ signals = <<>>
    /\ summary = <<>>
    /\ noSignals = FALSE
    /\ predictions = <<>>

Init == universe = "window" /\ InitState

InitDetect == universe = "detect" /\ InitState

InitPredict == universe = "tail" /\ InitState

Next == FetchData \/ RunBacktest \/ ScanBar \/ Summarize \/ RunPrediction

Spec == Init /\ [][Next]_vars

SpecDetect == InitDetect /\ [][Next]_vars

SpecPredict == InitPredict /\ [][Next]_vars

--------------------------------------------------------------------------
(* Properties *)

\* The bars the loop of run_backtest has gone through so far.
Scanned == IF df.kind = "frame" THEN {b \in 50..(df.len - 1) : b < i} ELSE {}

EventsAt(b) == {n \in DOMAIN signals : signals[n].bar = b}

RecordedKind(b) ==
    IF EventsAt(b) = {} THEN NoSig ELSE signals[CHOOSE n \in EventsAt(b) : TRUE].Signal

\* The fixed order of the eight kinds.
Priority == <<Bull921, Bear921, Bull2150, Bear2150, MacdUp, MacdDown, RsiOver, RsiUnder>>

\* The k-th trigger condition on earlier values p and current values c (rows
\* of self.df), with plain integer comparisons guarded against NaN.
Defined(x, y) == x # NaN /\ y # NaN

Trigger(k, p, c) ==
    CASE k = 1 -> Defined(p.MA9, p.MA21) /\ Defined(c.MA9, c.MA21)
                  /\ p.MA9 < p.MA21 /\ c.MA9 > c.MA21
      [] k = 2 -> Defined(p.MA9, p.MA21) /\ Defined(c.MA9, c.MA21)
                  /\ p.MA9 > p.MA21 /\ c.MA9 < c.MA21
      [] k = 3 -> Defined(p.MA21, p.MA50) /\ Defined(c.MA21, c.MA50)
                  /\ p.MA21 < p.MA50 /\ c.MA21 > c.MA50
      [] k = 4 -> Defined(p.MA21, p.MA50) /\ Defined(c.MA21, c.MA50)
                  /\ p.MA21 > p.MA50 /\ c.MA21 < c.MA50
      [] k = 5 -> Defined(p.MACD_Line, c.MACD_Line) /\ p.MACD_Line < 0 /\ c.MACD_Line > 0
      [] k = 6 -> Defined(p.MACD_Line, c.MACD_Line) /\ p.MACD_Line > 0 /\ c.MACD_Line < 0
      [] k = 7 -> Defined(p.RSI, c.RSI) /\ p.RSI < 70 /\ c.RSI >= 70
      [] k = 8 -> Defined(p.RSI, c.RSI) /\ p.RSI > 30 /\ c.RSI <= 30

\* The values the k-th condition reads on p and c.
Operands(k, p, c) ==
    CASE k \in {1, 2} -> {p.MA9, p.MA21, c.MA9, c.MA21}
      [] k \in {3, 4} -> {p.MA21, p.MA50, c.MA21, c.MA50}
      [] k \in {5, 6} -> {p.MACD_Line, c.MACD_Line}
      [] k \in {7, 8} -> {p.RSI, c.RSI}

TrueTriggers(p, c) == {k \in 1..8 : Trigger(k, p, c)}

FirstTrue(p, c) ==
    IF TrueTriggers(p, c) = {} THEN NoSig
    ELSE Priority[CHOOSE k \in TrueTriggers(p, c) : \A m \in TrueTriggers(p, c) : k <= m]

\* The bar the code takes its earlier values from: prev['Prev_X'] is column
\* X.shift(1) read on row i-1, that is X of bar i-2.
EarlierRead(b) == df.rows[b - 2]

\* C1: on every scanned bar i the recorded kind is the first of the eight
\* conditions that holds between bar i-1 and bar i (no event when none holds).
C1_PreviousBarCrossover ==
    \A b \in Scanned : RecordedKind(b) = FirstTrue(df.rows[b - 1], df.rows[b])

\* C2: at most one event per bar, and its kind is the first true condition in
\* the fixed order, the conditions being evaluated on the values the code
\* reads for the bar.
C2_OneEventFirstMatch ==
    \A b \in Scanned :
        /\ Cardinality(EventsAt(b)) <= 1
        /\ RecordedKind(b) = FirstTrue(EarlierRead(b), df.rows[b])

C2_Witness ==
    /\ pc = "done"
    /\ \E b \in Scanned :
        /\ Cardinality(TrueTriggers(EarlierRead(b), df.rows[b])) >= 2
        /\ 1 \notin TrueTriggers(EarlierRead(b), df.rows[b])
        /\ RecordedKind(b) # NoSig

\* C3: every recorded event belongs to a bar i with 50 <= i < N - 20.
C3_EventsInsideScanRange ==
    \A n \in DOMAIN signals : 50 <= signals[n].bar /\ signals[n].bar < df.len - 20

C3_Witness ==
    /\ pc = "done"
    /\ EventsAt(50) # {}
    /\ EventsAt(df.len - 21) # {}
    /\ df.len - 21 > 50

\* The 60-bar series with one clean MA9-over-MA21 cross at bar 55.
CrossAt55Of60 ==
    /\ df.kind = "frame"
    /\ df.len = 60
    /\ \A j \in 0..59 :
        /\ (j < 55 => df.rows[j].MA9 < df.rows[j].MA21)
        /\ (j >= 55 => df.rows[j].MA9 > df.rows[j].MA21)
        /\ df.rows[j].MA21 < df.rows[j].MA50
        /\ df.rows[j].MACD_Line < 0
        /\ df.rows[j].RSI = 50

\* C4 as stated: the 60-bar series with its single cross at bar 55 yields
\* exactly one bull event, whose 5-bar return is defined iff bar 60 exists.
C4_OneEventAtBar55 ==
    (pc = "done" /\ CrossAt55Of60) =>
        /\ Len(signals) = 1
        /\ signals[1].Signal = Bull921
        /\ (IsNaN(signals[1].Ret_5d) <=> ~(60 < df.len))

\* C4 amended: the 60-bar series with its single cross at bar 55 yields no
\* event at all, and "No signals found" is reported instead of a summary.
C4_NoEventInsideMargin ==
    (pc \in {"run_prediction", "done"} /\ CrossAt55Of60) =>
        /\ signals = <<>>
        /\ noSignals
        /\ summary = <<>>

C4_Witness == pc = "done" /\ CrossAt55Of60 /\ Len(calls) = 4

\* The last values and the slope numerators predict_cross works on, read
\* from self.df for the pair of columns of prediction p.
LastOf(col) == df.rows[df.len - 1][col]

GapOf(p) == LastOf(p.short) - LastOf(p.long)

NetOf(p) == SlopeNum(TailOf(df, p.short)) - SlopeNum(TailOf(df, p.long))

\* C5: an estimate is reported iff gap and net_slope are both non-zero with
\* opposite signs; otherwise the status is "Diverging (No Cross)", no
\* estimate is given and nothing is divided; no division is ever by zero.
C5_ConvergingIffOppositeSigns ==
    \A n \in DOMAIN predictions :
        LET p == predictions[n]
        IN /\ (p.status = "Converging") <=> (GapOf(p) * NetOf(p) < 0)
           /\ (p.status # "Converging") =>
                (p.status = "Diverging (No Cross)" /\ p.days = <<>> /\ p.divisors = <<>>)
           /\ \A m \in DOMAIN p.divisors : p.divisors[m] # 0

C5_Witness ==
    /\ pc = "done"
    /\ Len(predictions) = 2
    /\ NetOf(predictions[1]) = 0
    /\ GapOf(predictions[1]) # 0
    /\ predictions[1].status = "Diverging (No Cross)"
    /\ predictions[2].status = "Converging"

\* The scenario of the last five values [10..14] against [14..10].
ScenarioTails ==
    /\ df.kind = "frame"
    /\ df.len >= 5
    /\ TailOf(df, "MA9") = <<10, 11, 12, 13, 14>>
    /\ TailOf(df, "MA21") = <<14, 13, 12, 11, 10>>

\* C6 as stated: the scenario is classified BULLISH with a finite positive
\* days-to-cross estimate.
C6_ScenarioConverging ==
    (pc = "done" /\ ScenarioTails) =>
        /\ predictions[1].trend = "BULLISH"
        /\ predictions[1].status = "Converging"
        /\ Len(predictions[1].days) = 2
        /\ predictions[1].days[1] > 0
        /\ predictions[1].days[2] > 0

\* C6 amended: the scenario is classified BULLISH and reported as
\* "Diverging (No Cross)" with no estimate.
C6_ScenarioDiverging ==
    (pc = "done" /\ ScenarioTails) =>
        /\ predictions[1].trend = "BULLISH"
        /\ predictions[1].status = "Diverging (No Cross)"
        /\ predictions[1].days = <<>>

C6_Witness == pc = "done" /\ ScenarioTails /\ Len(predictions) = 2

\* Position of the first event of a kind in the event list.
FirstSeen(key) ==
    CHOOSE n \in DOMAIN signals :
        signals[n].Signal = key /\ \A m \in 1..(n - 1) : signals[m].Signal # key

CountDescending ==
    \A r \in 1..(Len(summary) - 1) : summary[r].Count >= summary[r + 1].Count

\* C7 as stated: rows in descending order of Count, rows of equal Count in
\* the order in which their kinds were first seen.
C7_TiesFirstSeen ==
    /\ CountDescending
    /\ \A r1, r2 \in DOMAIN summary :
        (r1 < r2 /\ summary[r1].Count = summary[r2].Count) =>
            FirstSeen(summary[r1].Signal) < FirstSeen(summary[r2].Signal)

\* C7 amended: every kind present has exactly one row and the rows are in
\* descending order of Count (nothing is promised about equal counts).
C7_CountDescending ==
    /\ CountDescending
    /\ \A r1, r2 \in DOMAIN summary : r1 # r2 => summary[r1].Signal # summary[r2].Signal
    /\ (pc \in {"run_prediction", "done"} /\ signals # <<>>) =>
          {summary[r].Signal : r \in DOMAIN summary}
              = {signals[n].Signal : n \in DOMAIN signals}

C7_Witness ==
    /\ pc = "done"
    /\ Len(summary) >= 2
    /\ summary[1].Count > summary[2].Count

RECURSIVE SumCounts(_)
SumCounts(rows) ==
    IF rows = <<>> THEN 0 ELSE rows[1].Count + SumCounts(SubSeq(rows, 2, Len(rows)))

PipelineOrder == <<"download", "_calculate_indicators", "run_backtest", "run_prediction">>

C9_FetchGuardsPipeline ==
    /\ Cardinality({n \in DOMAIN calls : calls[n] = "download"}) <= 1
    /\ Len(calls) <= Len(PipelineOrder)
    /\ \A n \in DOMAIN calls : calls[n] = PipelineOrder[n]
    /\ fetched \in {"raise", "empty"} =>
          (calls = <<"download">> /\ fetchResult = "False" /\ pc = "done")
    /\ Len(calls) >= 2 => (fetched = "data" /\ fetchResult = "True")

C9_Witness == pc = "done" /\ fetched = "empty" /\ fetchResult = "False"

\* C10: on a scanned bar no kind is recorded whose condition reads an
\* undefined value, and a bar on which every condition reads one records no
\* event.
C10_NoTriggerOnUndefined ==
    \A b \in Scanned :
        /\ \A k \in 1..8 :
              NaN \in Operands(k, EarlierRead(b), df.rows[b]) => RecordedKind(b) # Priority[k]
        /\ (\A k \in 1..8 : NaN \in Operands(k, EarlierRead(b), df.rows[b]))
              => EventsAt(b) = {}

C10_Witness ==
    /\ pc = "done"
    /\ \E b \in Scanned :
        /\ IsNaN(EarlierRead(b).RSI)
        /\ df.rows[b].RSI = 100
        /\ ~IsNaN(df.rows[b].MA9)
        /\ EventsAt(b) = {}

====
